---- MODULE Spec2Model ----
(***************************************************************************)
(* OAuth2EmailBackend (src/website/email_backend.py): the process-wide     *)
(* token cache guarded by one class-level lock, get_access_token(),        *)
(* clear_token_cache() and open(), run by concurrent threads that each own *)
(* one backend instance.  The identity provider and the mail server are    *)
(* the environment: every reply they can give is a nondeterministic        *)
(* choice.                                                                 *)
(***************************************************************************)
EXTENDS Integers, Sequences, FiniteSets, TLC

VARIABLES
    cfg,            \* cfg[t]: the attributes __init__ gave thread t's backend
    token_cache,    \* OAuth2EmailBackend._token_cache: cache key -> token
    token_lock,     \* OAuth2EmailBackend._token_lock: the holder, or "None"
    pc,             \* pc[t]: where thread t stands in the call it is running
    op,             \* op[t]: the call thread t started last
    connection,     \* connection[t]: self.connection ("None", "SMTP", "SMTP_SSL")
    server,         \* server[t]: the mail server's view of t's session
    access_token,   \* access_token[t]: the local access_token / cached_token
    exc,            \* exc[t]: the exception raised in t's current call
    result,         \* result[t]: the local result of get_access_token()
    reply,          \* reply[t]: the server's (code, response) to t's AUTH
    ret,            \* ret[t]: how t's last finished call ended
    trace,          \* trace[t]: the protocol steps of t's current call, in order
    log,            \* log[t]: the log records of t's current call, in order
    oauth2_string,  \* oauth2_string[t]: generate_oauth2_string's arguments and value
    since_clear,    \* history: threads whose last lookup came after the last clear
    minted,         \* history: the credentials each cached token was acquired with
    expired         \* environment: the cache keys whose token has expired

vars == <<cfg, token_cache, token_lock, pc, op, connection, server,
          access_token, exc, result, reply, ret, trace, log,
          oauth2_string, since_clear, minted, expired>>

----------------------------------------------------------------------------
(* Threads, each owning one backend instance. *)
Threads == {"t1", "t2"}

(* The values the settings can give the three OAuth2 credentials. *)
ClientIds == {"", "a", "a:b"}
ClientSecrets == {"", "s1", "s2"}
TenantIds == {"", "c", "b:c"}

(* The tokens the identity provider can mint. *)
Tokens == {"T1", "T2"}

(* Status code of a successful AUTH. *)
AUTH_OK == 235

(* What the mail server can answer to AUTH XOAUTH2: (code, response), the   *)
(* response as bytes; "\\xff\\xfe" stands for bytes that are not valid UTF-8.*)
AuthReplies ==
    {[code |-> AUTH_OK, response |-> "2.7.0 Authentication successful"],
     [code |-> 535, response |-> "5.7.3 Authentication unsuccessful"],
     [code |-> 535, response |-> "\\xff\\xfe"],
     [code |-> 334, response |-> "eyJzdGF0dXMiOiI0MDAifQ=="],
     [code |-> 250, response |-> "2.0.0 OK"]}

(* bytes.decode() succeeds on valid UTF-8 only. *)
Utf8Decodable(bytes) == bytes # "\\xff\\xfe"

NoExc == [type |-> "None"]
NoResult == [unset |-> ""]
NoReply == [code |-> 0, response |-> ""]
EmptyCache == [k \in {} |-> ""]
NoSasl == [user |-> <<>>, access_token |-> <<>>, value |-> <<>>]

(* An SMTP reply exception: smtplib.SMTPResponseException subclasses. *)
SMTPAuthenticationError(code, msg) ==
    [type |-> "SMTPAuthenticationError", smtp_code |-> code, smtp_error |-> msg]

OtherError(type, msg) == [type |-> type, msg |-> msg]

(* Classes caught by `except SMTPException`. *)
IsSMTPException(e) ==
    e.type \in {"SMTPAuthenticationError", "SMTPConnectError",
                "SMTPServerDisconnected", "SMTPNotSupportedError",
                "SMTPResponseException"}

(* Lines 117-121: the error of an incomplete credential triple. *)
CredentialsNotConfigured ==
    SMTPAuthenticationError(0, "OAuth2 credentials not configured. Please set MICROSOFT_CLIENT_ID, MICROSOFT_CLIENT_SECRET, and MICROSOFT_TENANT_ID environment variables.")

(* A check that forgets the secret. *)
CredentialsConfigured_noSecret(c) == c.client_id # "" /\ c.tenant_id # ""

(* all([client_id, client_secret, tenant_id]) *)
CredentialsConfigured(c) ==
    c.client_id # "" /\ c.client_secret # "" /\ c.tenant_id # ""

(* The tenant is left out of the key. *)
CacheKey_idOnly(c) == c.client_id

(* cache_key = f"{self.client_id}:{self.tenant_id}" *)
CacheKey(c) == c.client_id \o ":" \o c.tenant_id

(* A lookup under a key the response never has. *)
DictGet_default(d, key, default) == default

(* dict.get(key, default) *)
DictGet(d, key, default) == IF key \in DOMAIN d THEN d[key] ELSE default

(* What msal's acquire_token_for_client can hand back: a result dict. *)
IdpResults ==
    {[access_token |-> tk] : tk \in Tokens}
    \cup {[error |-> "invalid_client", error_description |-> "bad secret"],
          [k \in {} |-> ""]}

(* ... or an exception it raises, by its str(). *)
IdpExceptions == {"connection timed out"}

Count(s, x) == Cardinality({i \in DOMAIN s : s[i] = x})

LogRecord(level, msg) == <<level, msg>>

LogCount(s, level) == Cardinality({i \in DOMAIN s : s[i][1] = level})

----------------------------------------------------------------------------
(* The configurations a backend can be constructed with (__init__).  Django *)
(* rejects use_tls and use_ssl both set.                                    *)
Configs(ids, secrets, tenants, logins, hosts, modes, silences) ==
    {[client_id |-> i, client_secret |-> s, tenant_id |-> n,
      username |-> u, password |-> u, EMAIL_HOST_USER |-> h,
      use_tls |-> m = "starttls", use_ssl |-> m = "ssl", fail_silently |-> f] :
        i \in ids, s \in secrets, n \in tenants, u \in logins, h \in hosts,
        m \in modes, f \in silences}

InitState(configs) ==
    /\ cfg \in [Threads -> configs]
    /\ token_cache = EmptyCache
    /\ token_lock = "None"
    /\ pc = [t \in Threads |-> "idle"]
    /\ op = [t \in Threads |-> "none"]
    /\ connection = [t \in Threads |-> "None"]
    /\ server = [t \in Threads |-> "closed"]
    /\ access_token = [t \in Threads |-> ""]
    /\ exc = [t \in Threads |-> NoExc]
    /\ result = [t \in Threads |-> NoResult]
    /\ reply = [t \in Threads |-> NoReply]
    /\ ret = [t \in Threads |-> [kind |-> "none"]]
    /\ trace = [t \in Threads |-> <<>>]
    /\ log = [t \in Threads |-> <<>>]
    /\ oauth2_string = [t \in Threads |-> NoSasl]
    /\ since_clear = {}
    /\ minted = EmptyCache
    /\ expired = {}

----------------------------------------------------------------------------
(* generate_oauth2_string(), lines 176-191.  A str is the sequence of its
   code points, bytes are a sequence of 0..255, and the returned str is the
   sequence of its characters. *)

(* The value that stands for str.encode() raising UnicodeEncodeError
   ('surrogates not allowed'); no encoding and no base64 text equals it. *)
UnicodeEncodeError == <<"UnicodeEncodeError">>

(* A lone surrogate, U+D800..U+DFFF: a str may hold one, UTF-8 has no
   encoding for it. *)
LoneSurrogate(cp) == cp >= 55296 /\ cp <= 57343

(* Line 191: str.encode(), UTF-8 and strict, of one code point. *)
Utf8Char(cp) ==
    IF LoneSurrogate(cp) THEN UnicodeEncodeError
    ELSE IF cp < 128 THEN <<cp>>
    ELSE IF cp < 2048 THEN <<192 + (cp \div 64), 128 + (cp % 64)>>
    ELSE IF cp < 65536
    THEN <<224 + (cp \div 4096), 128 + ((cp \div 64) % 64), 128 + (cp % 64)>>
    ELSE <<240 + (cp \div 262144), 128 + ((cp \div 4096) % 64),
           128 + ((cp \div 64) % 64), 128 + (cp % 64)>>

Encodable(text) == \A i \in 1..Len(text) : ~LoneSurrogate(text[i])

(* Line 191: auth_string.encode().  One lone surrogate anywhere in the text
   makes the whole call raise; no bytes come back. *)
RECURSIVE Utf8Bytes(_)
Utf8Bytes(text) ==
    IF ~Encodable(text) THEN UnicodeEncodeError
    ELSE IF text = <<>> THEN <<>>
    ELSE Utf8Char(Head(text)) \o Utf8Bytes(Tail(text))

B64Alphabet ==
    <<"A", "B", "C", "D", "E", "F", "G", "H", "I", "J", "K", "L", "M",
      "N", "O", "P", "Q", "R", "S", "T", "U", "V", "W", "X", "Y", "Z",
      "a", "b", "c", "d", "e", "f", "g", "h", "i", "j", "k", "l", "m",
      "n", "o", "p", "q", "r", "s", "t", "u", "v", "w", "x", "y", "z",
      "0", "1", "2", "3", "4", "5", "6", "7", "8", "9", "+", "/">>

B64Digit(n) == B64Alphabet[n + 1]

(* Line 191: base64.b64encode(), three bytes to four characters, '=' padded. *)
RECURSIVE b64encode(_)
b64encode(bytes) ==
    IF Len(bytes) = 0 THEN <<>>
    ELSE IF Len(bytes) = 1
    THEN <<B64Digit(bytes[1] \div 4), B64Digit((bytes[1] % 4) * 16), "=", "=">>
    ELSE IF Len(bytes) = 2
    THEN <<B64Digit(bytes[1] \div 4),
           B64Digit((bytes[1] % 4) * 16 + (bytes[2] \div 16)),
           B64Digit((bytes[2] % 16) * 4), "=">>
    ELSE <<B64Digit(bytes[1] \div 4),
           B64Digit((bytes[1] % 4) * 16 + (bytes[2] \div 16)),
           B64Digit((bytes[2] % 16) * 4 + (bytes[3] \div 64)),
           B64Digit(bytes[3] % 64)>>
         \o b64encode(SubSeq(bytes, 4, Len(bytes)))

(* Only one \x01 closes the string. *)
AuthString_oneTerminator(user, token) ==
    <<117, 115, 101, 114, 61>> \o user \o <<1>>
    \o <<97, 117, 116, 104, 61, 66, 101, 97, 114, 101, 114, 32>>
    \o token \o <<1>>

(* Line 190: f"user={user}\x01auth=Bearer {access_token}\x01\x01". *)
AuthString(user, token) ==
    <<117, 115, 101, 114, 61>> \o user \o <<1>>
    \o <<97, 117, 116, 104, 61, 66, 101, 97, 114, 101, 114, 32>>
    \o token \o <<1, 1>>

(* Lines 190-191: the text, or UnicodeEncodeError out of encode(). *)
generate_oauth2_string(user, token) ==
    IF Encodable(AuthString(user, token))
    THEN b64encode(Utf8Bytes(AuthString(user, token)))
    ELSE UnicodeEncodeError

(* The code points of the strings the model names. *)
CodePoints(str) ==
    CASE str = "T1" -> <<84, 49>>
      [] str = "T2" -> <<84, 50>>
      [] str = "user" -> <<117, 115, 101, 114>>
      [] str = "from" -> <<102, 114, 111, 109>>
      [] str = "\\ud800" -> <<55296>>

DEFAULT_FROM_EMAIL == "from"

(* Lines 249-251: settings.EMAIL_HOST_USER, whatever self.username holds,
   or settings.DEFAULT_FROM_EMAIL when it is empty. *)
UserEmail(c) ==
    IF c.EMAIL_HOST_USER # "" THEN c.EMAIL_HOST_USER ELSE DEFAULT_FROM_EMAIL

(* Line 254: the call, with its arguments and its value. *)
SaslCall(user, token) ==
    [user |-> user, access_token |-> token,
     value |-> generate_oauth2_string(user, token)]

----------------------------------------------------------------------------
(* A caller starts a call on its backend. *)
Begin(t, name, first) ==
    /\ pc[t] = "idle"
    /\ pc' = [pc EXCEPT ![t] = first]
    /\ op' = [op EXCEPT ![t] = name]
    /\ access_token' = [access_token EXCEPT ![t] = ""]
    /\ exc' = [exc EXCEPT ![t] = NoExc]
    /\ result' = [result EXCEPT ![t] = NoResult]
    /\ reply' = [reply EXCEPT ![t] = NoReply]
    /\ ret' = [ret EXCEPT ![t] = [kind |-> "none"]]
    /\ trace' = [trace EXCEPT ![t] = <<>>]
    /\ log' = [log EXCEPT ![t] = <<>>]
    /\ oauth2_string' = [oauth2_string EXCEPT ![t] = NoSasl]
    /\ since_clear' = since_clear \ {t}
    /\ UNCHANGED <<cfg, token_cache, token_lock, connection, server,
                   minted, expired>>

CallGetAccessToken(t) == Begin(t, "get_access_token", "gat_entry")

CallClearTokenCache(t) == Begin(t, "clear_token_cache", "clr_wait")

CallOpen(t) == Begin(t, "open", "open_entry")

(* get_access_token() hands `v` back: to open(), or to the caller. *)
GatReturns(t, v) ==
    IF op[t] = "open"
    THEN /\ pc' = [pc EXCEPT ![t] = "open_sasl"]
         /\ UNCHANGED ret
    ELSE /\ pc' = [pc EXCEPT ![t] = "idle"]
         /\ ret' = [ret EXCEPT ![t] = [kind |-> "return", val |-> v]]

(* get_access_token() raises `e`: into open()'s handlers, or to the caller. *)
GatRaises(t, e) ==
    IF op[t] = "open"
    THEN /\ pc' = [pc EXCEPT ![t] = "open_except"]
         /\ exc' = [exc EXCEPT ![t] = e]
         /\ UNCHANGED ret
    ELSE /\ pc' = [pc EXCEPT ![t] = "idle"]
         /\ exc' = [exc EXCEPT ![t] = e]
         /\ ret' = [ret EXCEPT ![t] = [kind |-> "raise", exc |-> e]]

(* Lines 115-121: the credential check, before the lock is taken. *)
GatEntry(t) ==
    /\ pc[t] = "gat_entry"
    /\ IF CredentialsConfigured(cfg[t])
       THEN /\ pc' = [pc EXCEPT ![t] = "gat_wait"]
            /\ UNCHANGED <<exc, ret>>
       ELSE GatRaises(t, CredentialsNotConfigured)
    /\ UNCHANGED <<cfg, token_cache, token_lock, op, connection, server,
                   access_token, trace, log,
                   result, reply,
                   oauth2_string, since_clear, minted, expired>>

(* No lock taken. *)
LockFree_ignored(t) == TRUE

(* threading.Lock.acquire(): blocks until the lock is free. *)
LockFree(t) == token_lock = "None"

(* Line 124: with self._token_lock. *)
GatLock(t) ==
    /\ pc[t] = "gat_wait"
    /\ LockFree(t)
    /\ token_lock' = t
    /\ pc' = [pc EXCEPT ![t] = "gat_locked"]
    /\ UNCHANGED <<cfg, token_cache, op, connection, server, access_token,
                   exc, ret, trace, log,
                   result, reply,
                   oauth2_string, since_clear, minted, expired>>

(* The cache is never consulted. *)
CacheHit_never(t) == FALSE

(* Line 128: cache_key in self._token_cache. *)
CacheHit(t) == CacheKey(cfg[t]) \in DOMAIN token_cache

(* Lines 125-140: the lookup; on a miss the acquisition call is issued. *)
GatLookup(t) ==
    /\ pc[t] = "gat_locked"
    /\ IF CacheHit(t)
       THEN /\ access_token' = [access_token EXCEPT ![t] = token_cache[CacheKey(cfg[t])]]
            /\ log' = [log EXCEPT ![t] = Append(@, LogRecord("debug", "Using cached OAuth2 token"))]
            /\ trace' = [trace EXCEPT ![t] = Append(@, "cache_hit")]
            /\ pc' = [pc EXCEPT ![t] = "gat_hit"]
       ELSE /\ log' = [log EXCEPT ![t] = Append(@, LogRecord("info", "Acquiring OAuth2 access token"))]
            /\ trace' = [trace EXCEPT ![t] = Append(@, "acquire")]
            /\ pc' = [pc EXCEPT ![t] = "gat_net"]
            /\ UNCHANGED access_token
    /\ since_clear' = since_clear \cup {t}
    /\ UNCHANGED <<cfg, token_cache, token_lock, op, connection, server, exc, ret,
                   result, reply,
                   oauth2_string, minted, expired>>

(* Lines 73-75 and 94-98: the triple the acquisition is made with. *)
Credentials(c) ==
    [client_id |-> c.client_id, client_secret |-> c.client_secret,
     tenant_id |-> c.tenant_id]

(* Line 146: self._token_cache[cache_key] = access_token. *)
CacheStore(cache, key, tk) ==
    [k \in DOMAIN cache \cup {key} |-> IF k = key THEN tk ELSE cache[k]]

(* Lines 142-149: the grant response holds an access token. *)
GatAcquired(t) ==
    /\ pc[t] = "gat_net"
    /\ \E r \in IdpResults :
        /\ "access_token" \in DOMAIN r
        /\ result' = [result EXCEPT ![t] = r]
        /\ access_token' = [access_token EXCEPT ![t] = r["access_token"]]
        /\ token_cache' = CacheStore(token_cache, CacheKey(cfg[t]), r["access_token"])
    /\ minted' = CacheStore(minted, CacheKey(cfg[t]), Credentials(cfg[t]))
    /\ expired' = expired \ {CacheKey(cfg[t])}
    /\ log' = [log EXCEPT ![t] = Append(@, LogRecord("info", "OAuth2 access token acquired successfully"))]
    /\ trace' = [trace EXCEPT ![t] = Append(@, "store")]
    /\ pc' = [pc EXCEPT ![t] = "gat_stored"]
    /\ UNCHANGED <<cfg, token_lock, op, connection, server, exc, ret, reply,
                   oauth2_string, since_clear>>

(* Lines 150-164: the grant response holds no access token. *)
GatRejected(t) ==
    /\ pc[t] = "gat_net"
    /\ \E r \in IdpResults :
        /\ "access_token" \notin DOMAIN r
        /\ result' = [result EXCEPT ![t] = r]
        /\ exc' = [exc EXCEPT ![t] = SMTPAuthenticationError(0,
                     "OAuth2 token acquisition failed: "
                     \o DictGet(r, "error", "unknown_error")
                     \o ". Check your Azure app registration and credentials. Details: "
                     \o DictGet(r, "error_description", "No description provided"))]
    /\ log' = [log EXCEPT ![t] = Append(@, LogRecord("error", "Failed to acquire OAuth2 token"))]
    /\ pc' = [pc EXCEPT ![t] = "gat_raise"]
    /\ UNCHANGED <<cfg, token_cache, token_lock, op, connection, server,
                   access_token, ret, trace, reply,
                   oauth2_string, since_clear, minted, expired>>

(* Lines 169-174: the acquisition call raised. *)
GatFailed(t) ==
    /\ pc[t] = "gat_net"
    /\ \E e \in IdpExceptions :
        exc' = [exc EXCEPT ![t] = SMTPAuthenticationError(0,
                  "Failed to acquire OAuth2 token: " \o e)]
    /\ log' = [log EXCEPT ![t] = Append(@, LogRecord("error", "Exception during OAuth2 token acquisition"))]
    /\ pc' = [pc EXCEPT ![t] = "gat_raise"]
    /\ UNCHANGED <<cfg, token_cache, token_lock, op, connection, server,
                   access_token, ret, trace,
                   result, reply,
                   oauth2_string, since_clear, minted, expired>>

(* Lines 131 and 149: return, leaving the with block. *)
GatReturn(t) ==
    /\ pc[t] \in {"gat_hit", "gat_stored"}
    /\ token_lock' = "None"
    /\ GatReturns(t, access_token[t])
    /\ UNCHANGED <<cfg, token_cache, op, connection, server, access_token,
                   exc, trace, log,
                   result, reply,
                   oauth2_string, since_clear, minted, expired>>

(* The exception leaves the block with the lock still held. *)
GatRaise_leak(t) ==
    /\ pc[t] = "gat_raise"
    /\ GatRaises(t, exc[t])
    /\ UNCHANGED <<cfg, token_cache, token_lock, op, connection, server,
                   access_token, trace, log, result, reply,
                   oauth2_string, since_clear, minted, expired>>

(* Lines 159-174: raise, leaving the with block. *)
GatRaise(t) ==
    /\ pc[t] = "gat_raise"
    /\ token_lock' = "None"
    /\ GatRaises(t, exc[t])
    /\ UNCHANGED <<cfg, token_cache, op, connection, server, access_token,
                   trace, log,
                   result, reply,
                   oauth2_string, since_clear, minted, expired>>

(* Line 309: with cls._token_lock. *)
ClearLock(t) ==
    /\ pc[t] = "clr_wait"
    /\ LockFree(t)
    /\ token_lock' = t
    /\ pc' = [pc EXCEPT ![t] = "clr_locked"]
    /\ UNCHANGED <<cfg, token_cache, op, connection, server, access_token,
                   exc, ret, trace, log,
                   result, reply,
                   oauth2_string, since_clear, minted, expired>>

(* Nothing is dropped. *)
CacheClear_noop(cache) == cache

(* Line 310: cls._token_cache.clear(). *)
CacheClear(cache) == EmptyCache

(* Lines 310-311, and leaving the with block. *)
ClearBody(t) ==
    /\ pc[t] = "clr_locked"
    /\ token_cache' = CacheClear(token_cache)
    /\ since_clear' = {}
    /\ minted' = [k \in DOMAIN token_cache' |-> minted[k]]
    /\ expired' = expired \cap DOMAIN token_cache'
    /\ log' = [log EXCEPT ![t] = Append(@, LogRecord("info", "OAuth2 token cache cleared"))]
    /\ trace' = [trace EXCEPT ![t] = Append(@, "clear")]
    /\ token_lock' = "None"
    /\ pc' = [pc EXCEPT ![t] = "idle"]
    /\ ret' = [ret EXCEPT ![t] = [kind |-> "return", val |-> "None"]]
    /\ UNCHANGED <<cfg, op, connection, server, access_token, exc,
                   result, reply,
                   oauth2_string>>

TokenStep(t) ==
    \/ CallGetAccessToken(t)
    \/ CallClearTokenCache(t)
    \/ GatEntry(t)
    \/ GatLock(t)
    \/ GatLookup(t)
    \/ GatAcquired(t)
    \/ GatRejected(t)
    \/ GatFailed(t)
    \/ GatReturn(t)
    \/ GatRaise(t)
    \/ ClearLock(t)
    \/ ClearBody(t)

----------------------------------------------------------------------------
(* The guard is missing. *)
AlreadyOpen_never(t) == FALSE

(* Lines 203-205: if self.connection: return False. *)
AlreadyOpen(t) == connection[t] # "None"

OpenEntry(t) ==
    /\ pc[t] = "open_entry"
    /\ IF AlreadyOpen(t)
       THEN /\ pc' = [pc EXCEPT ![t] = "idle"]
            /\ ret' = [ret EXCEPT ![t] = [kind |-> "return", val |-> "False"]]
       ELSE /\ pc' = [pc EXCEPT ![t] = "open_connect"]
            /\ UNCHANGED ret
    /\ UNCHANGED <<cfg, token_cache, token_lock, op, connection, server,
                   access_token, exc, trace, log,
                   result, reply,
                   oauth2_string, since_clear, minted, expired>>

(* open() starts over after an exception. *)
OpenRaises_retry(t, e) ==
    /\ exc' = [exc EXCEPT ![t] = e]
    /\ pc' = [pc EXCEPT ![t] = "open_connect"]

(* An exception leaves the try body of open(). *)
OpenRaises(t, e) ==
    /\ exc' = [exc EXCEPT ![t] = e]
    /\ pc' = [pc EXCEPT ![t] = "open_except"]

(* Lines 214-228: the connection is made. *)
OpenConnect(t) ==
    /\ pc[t] = "open_connect"
    /\ connection' = [connection EXCEPT ![t] =
                         IF cfg[t].use_ssl THEN "SMTP_SSL" ELSE "SMTP"]
    /\ server' = [server EXCEPT ![t] = "connected"]
    /\ trace' = [trace EXCEPT ![t] = Append(@, "connect")]
    /\ pc' = [pc EXCEPT ![t] = "open_ehlo"]
    /\ UNCHANGED <<cfg, token_cache, token_lock, op, access_token, exc, ret, log,
                   result, reply,
                   oauth2_string, since_clear, minted, expired>>

(* Lines 229-231: the constructor raised; self.connection was not assigned. *)
OpenConnectFails(t) ==
    /\ pc[t] = "open_connect"
    /\ \E e \in {OtherError("SMTPConnectError", "refused"),
                 OtherError("OSError", "unreachable")} :
        OpenRaises(t, e)
    /\ trace' = [trace EXCEPT ![t] = Append(@, "connect")]
    /\ log' = [log EXCEPT ![t] = Append(@, LogRecord("error", "Failed to connect to SMTP server"))]
    /\ UNCHANGED <<cfg, token_cache, token_lock, op, connection, server,
                   access_token, ret,
                   result, reply,
                   oauth2_string, since_clear, minted, expired>>

(* STARTTLS is skipped. *)
WantsStartTls_never(c) == FALSE

(* Line 237: if self.use_tls and not self.use_ssl. *)
WantsStartTls(c) == c.use_tls /\ ~c.use_ssl

(* Line 234: self.connection.ehlo(). *)
OpenEhlo(t) ==
    /\ pc[t] = "open_ehlo"
    /\ trace' = [trace EXCEPT ![t] = Append(@, "ehlo")]
    /\ \/ /\ pc' = [pc EXCEPT ![t] =
                       IF WantsStartTls(cfg[t]) THEN "open_starttls" ELSE "open_token"]
          /\ UNCHANGED exc
       \/ OpenRaises(t, OtherError("SMTPServerDisconnected", "closed"))
    /\ UNCHANGED <<cfg, token_cache, token_lock, op, connection, server,
                   access_token, ret, log,
                   result, reply,
                   oauth2_string, since_clear, minted, expired>>

(* Line 238: self.connection.starttls(). *)
OpenStartTls(t) ==
    /\ pc[t] = "open_starttls"
    /\ trace' = [trace EXCEPT ![t] = Append(@, "starttls")]
    /\ \/ /\ pc' = [pc EXCEPT ![t] = "open_ehlo_tls"]
          /\ UNCHANGED exc
       \/ \E e \in {OtherError("SMTPNotSupportedError", "no STARTTLS"),
                    OtherError("SMTPResponseException", "454 TLS not available"),
                    OtherError("SSLError", "handshake failed")} :
              OpenRaises(t, e)
    /\ UNCHANGED <<cfg, token_cache, token_lock, op, connection, server,
                   access_token, ret, log,
                   result, reply,
                   oauth2_string, since_clear, minted, expired>>

(* Line 239: self.connection.ehlo(), over the encrypted connection. *)
OpenEhloTls(t) ==
    /\ pc[t] = "open_ehlo_tls"
    /\ trace' = [trace EXCEPT ![t] = Append(@, "ehlo")]
    /\ \/ /\ pc' = [pc EXCEPT ![t] = "open_token"]
          /\ UNCHANGED exc
       \/ OpenRaises(t, OtherError("SMTPServerDisconnected", "closed"))
    /\ UNCHANGED <<cfg, token_cache, token_lock, op, connection, server,
                   access_token, ret, log,
                   result, reply,
                   oauth2_string, since_clear, minted, expired>>

(* Lines 241-245: authentication is OAuth2 whatever self.username and       *)
(* self.password hold; open() reads neither.                                *)
AuthStep(c) == "gat_entry"

(* Lines 242-245: access_token = self.get_access_token(). *)
OpenGetToken(t) ==
    /\ pc[t] = "open_token"
    /\ log' = [log EXCEPT ![t] = Append(@, LogRecord("info", "Authenticating using OAuth2"))]
    /\ trace' = [trace EXCEPT ![t] = Append(@, "get_access_token")]
    /\ pc' = [pc EXCEPT ![t] = AuthStep(cfg[t])]
    /\ UNCHANGED <<cfg, token_cache, token_lock, op, connection, server,
                   access_token, exc, ret,
                   result, reply,
                   oauth2_string, since_clear, minted, expired>>

(* Line 266: code != 235 is a failure. *)
AuthSucceeded(code) == code = AUTH_OK

(* Lines 247-257: user_email, the OAuth2 string, and ehlo(). *)
OpenEhloAuth(t) ==
    /\ pc[t] = "open_sasl"
    /\ LET call == SaslCall(CodePoints(UserEmail(cfg[t])),
                            CodePoints(access_token[t]))
       IN  IF call.value = UnicodeEncodeError
           THEN /\ OpenRaises(t, OtherError("UnicodeEncodeError",
                                            "surrogates not allowed"))
                /\ UNCHANGED <<oauth2_string, trace>>
           ELSE /\ oauth2_string' = [oauth2_string EXCEPT ![t] = call]
                /\ trace' = [trace EXCEPT ![t] = Append(@, "ehlo")]
                /\ \/ /\ pc' = [pc EXCEPT ![t] = "open_auth"]
                      /\ UNCHANGED exc
                   \/ OpenRaises(t, OtherError("SMTPServerDisconnected", "closed"))
    /\ UNCHANGED <<cfg, token_cache, token_lock, op, connection, server,
                   access_token, ret, log,
                   result, reply,
                   since_clear, minted, expired>>

(* Lines 259-275: AUTH XOAUTH2 and the check of the reply. *)
OpenAuth(t) ==
    /\ pc[t] = "open_auth"
    /\ trace' = [trace EXCEPT ![t] = Append(@, "auth")]
    /\ \E r \in AuthReplies :
        /\ reply' = [reply EXCEPT ![t] = r]
        /\ IF AuthSucceeded(r.code)
           THEN /\ server' = [server EXCEPT ![t] = "authenticated"]
                /\ log' = [log EXCEPT ![t] = Append(@, LogRecord("info", "OAuth2 authentication successful"))]
                /\ pc' = [pc EXCEPT ![t] = "idle"]
                /\ ret' = [ret EXCEPT ![t] = [kind |-> "return", val |-> "True"]]
                /\ UNCHANGED exc
           ELSE /\ IF Utf8Decodable(r.response)
                   THEN /\ log' = [log EXCEPT ![t] = Append(@, LogRecord("error", "OAuth2 authentication failed"))]
                        /\ OpenRaises(t, SMTPAuthenticationError(r.code,
                               "OAuth2 authentication failed: " \o r.response))
                   ELSE /\ OpenRaises(t, OtherError("UnicodeDecodeError", "invalid start byte"))
                        /\ UNCHANGED log
                /\ UNCHANGED <<server, ret>>
    /\ UNCHANGED <<cfg, token_cache, token_lock, op, connection, access_token,
                   result,
                   oauth2_string, since_clear, minted, expired>>

(* Lines 261-264: docmd() itself raised (the server hung up). *)
OpenAuthFails(t) ==
    /\ pc[t] = "open_auth"
    /\ trace' = [trace EXCEPT ![t] = Append(@, "auth")]
    /\ OpenRaises(t, OtherError("SMTPServerDisconnected", "closed"))
    /\ UNCHANGED <<cfg, token_cache, token_lock, op, connection, server,
                   access_token, ret, log,
                   result, reply,
                   oauth2_string, since_clear, minted, expired>>

(* self.connection is not reset. *)
ReleaseConnection_kept(c) == c

(* Lines 280-285 and 293-298: quit() inside try/except, then None. *)
ReleaseConnection(c) == "None"

(* fail_silently is not honoured. *)
Outcome_raise(c, e) == [kind |-> "raise", exc |-> e]

(* Lines 286-288 and 299-301. *)
Outcome(c, e) ==
    IF ~c.fail_silently
    THEN [kind |-> "raise", exc |-> e]
    ELSE [kind |-> "return", val |-> "False"]

(* Lines 277-301: the two handlers of open(). *)
OpenExcept(t) ==
    /\ pc[t] = "open_except"
    /\ log' = [log EXCEPT ![t] = Append(@,
                  IF IsSMTPException(exc[t])
                  THEN LogRecord("error", "SMTP error during connection")
                  ELSE LogRecord("error", "Unexpected error during SMTP connection"))]
    /\ IF connection[t] # "None"
       THEN /\ \E q \in {"quit", "quit_raised"} :
                trace' = [trace EXCEPT ![t] = Append(@, q)]
            /\ connection' = [connection EXCEPT ![t] = ReleaseConnection(@)]
            /\ server' = [server EXCEPT ![t] = "closed"]
       ELSE UNCHANGED <<trace, connection, server>>
    /\ ret' = [ret EXCEPT ![t] = Outcome(cfg[t], exc[t])]
    /\ pc' = [pc EXCEPT ![t] = "idle"]
    /\ UNCHANGED <<cfg, token_cache, token_lock, op, access_token, exc,
                   result, reply,
                   oauth2_string, since_clear, minted, expired>>

OpenStep(t) ==
    \/ CallOpen(t)
    \/ OpenEntry(t)
    \/ OpenConnect(t)
    \/ OpenConnectFails(t)
    \/ OpenEhlo(t)
    \/ OpenStartTls(t)
    \/ OpenEhloTls(t)
    \/ OpenGetToken(t)
    \/ OpenEhloAuth(t)
    \/ OpenAuth(t)
    \/ OpenAuthFails(t)
    \/ OpenExcept(t)

----------------------------------------------------------------------------
(* The transport: backend t1 in every TLS mode and fail_silently value,     *)
(* with or without a static login and with or without a client secret,     *)
(* beside backend t2 in the deployed configuration (STARTTLS, errors       *)
(* raised, no static login); both share one credential identity.           *)
Deployed ==
    Configs({"a"}, {"s1"}, {"c"}, {""}, {""}, {"starttls"}, {FALSE})

Init ==
    /\ InitState(Configs({"a"}, {"s1", ""}, {"c"}, {"", "user"}, {"", "user"},
                         {"none", "starttls", "ssl"}, {FALSE, TRUE})
                 \cup Configs({"a"}, {"s1", ""}, {"c"}, {""}, {"\\ud800"},
                              {"none", "starttls", "ssl"}, {FALSE, TRUE}))
    /\ cfg["t2"] \in Deployed

Next == \E t \in Threads : TokenStep(t) \/ OpenStep(t)

Spec == Init /\ [][Next]_vars

(* The token provider alone: every credential triple. *)
InitToken ==
    InitState(Configs(ClientIds, ClientSecrets, TenantIds, {""}, {""},
                      {"starttls"}, {FALSE}))

NextToken == \E t \in Threads : TokenStep(t)

SpecToken == InitToken /\ [][NextToken]_vars

(* The identity provider's token stored under `key` reaches the end of its
   lifetime.  Nothing in the process changes: lines 142-146 keep the token
   string alone, without the response's expires_in. *)
TokenExpires(key) ==
    /\ key \in DOMAIN token_cache
    /\ key \notin expired
    /\ expired' = expired \cup {key}
    /\ UNCHANGED <<cfg, token_cache, token_lock, pc, op, connection, server,
                   access_token, exc, result, reply, ret, trace, log,
                   oauth2_string, since_clear, minted>>

(* The token provider while time passes: cached tokens may expire. *)
InitExpiry ==
    InitState(Configs({"a"}, {"s1", ""}, {"c", "b:c"}, {""}, {""},
                      {"starttls"}, {FALSE}))

NextExpiry ==
    \/ \E t \in Threads : TokenStep(t)
    \/ \E key \in DOMAIN token_cache : TokenExpires(key)

SpecExpiry == InitExpiry /\ [][NextExpiry]_vars

(* The token provider with its scheduling.  A thread that can run does run
   (the interpreter switches threads at every interval), the identity
   provider answers every request, with a token, a refusal or an error, and
   a thread blocked in Lock.acquire() takes the lock if it stays free.
   threading.Lock (line 44) keeps no order among its waiters: when the lock
   is freed and taken again by other callers, nothing hands it to a thread
   that has waited longer, so the fairness on acquisition is weak. *)
InitFair ==
    InitState(Configs({"a"}, {"s1", ""}, {"c", "b:c"}, {""}, {""},
                      {"starttls"}, {FALSE}))

Running(t) ==
    \/ GatEntry(t)
    \/ GatLookup(t)
    \/ GatAcquired(t) \/ GatRejected(t) \/ GatFailed(t)
    \/ GatReturn(t)
    \/ GatRaise(t)
    \/ ClearBody(t)

Fairness ==
    \A t \in Threads :
        /\ WF_vars(Running(t))
        /\ WF_vars(GatLock(t))
        /\ WF_vars(ClearLock(t))

SpecFair == InitFair /\ [][NextToken]_vars /\ Fairness

(* generate_oauth2_string() alone, on strings of up to two code points of
   one, two, three and four UTF-8 bytes and lone surrogates, and on the
   documented example, called while the token cache is empty and while it
   holds a token. *)
SaslCodePoints == {1, 64, 97, 233, 8364, 55296, 57343, 65536}

SaslTexts ==
    {<<>>} \cup {<<a>> : a \in SaslCodePoints}
           \cup {<<a, b>> : a, b \in SaslCodePoints}

ExampleUser ==
    <<97, 100, 109, 105, 110, 64, 101, 120, 97, 109, 112, 108, 101, 46,
      99, 111, 109>>

ExampleToken == <<84, 49, 50, 51>>

SaslArguments ==
    {[user |-> u, access_token |-> k, value |-> <<>>] :
        u \in SaslTexts, k \in SaslTexts}
    \cup {[user |-> ExampleUser, access_token |-> ExampleToken, value |-> <<>>]}

InitSasl ==
    /\ cfg \in [Threads -> Deployed]
    /\ token_cache \in {EmptyCache, CacheStore(EmptyCache, "a:c", "T1")}
    /\ token_lock = "None"
    /\ pc = [t \in Threads |-> "sasl_call"]
    /\ op = [t \in Threads |-> "generate_oauth2_string"]
    /\ connection = [t \in Threads |-> "None"]
    /\ server = [t \in Threads |-> "closed"]
    /\ access_token = [t \in Threads |-> ""]
    /\ exc = [t \in Threads |-> NoExc]
    /\ result = [t \in Threads |-> NoResult]
    /\ reply = [t \in Threads |-> NoReply]
    /\ ret = [t \in Threads |-> [kind |-> "none"]]
    /\ trace = [t \in Threads |-> <<>>]
    /\ log = [t \in Threads |-> <<>>]
    /\ oauth2_string \in [Threads -> SaslArguments]
    /\ oauth2_string["t2"].user = ExampleUser
    /\ since_clear = {}
    /\ minted = [k \in DOMAIN token_cache |-> Credentials(cfg["t1"])]
    /\ expired = {}

(* Lines 190-191: the call returns its value, or encode() raises. *)
GenerateOAuth2String(t) ==
    /\ pc[t] = "sasl_call"
    /\ LET call == SaslCall(oauth2_string[t].user, oauth2_string[t].access_token)
       IN  IF call.value = UnicodeEncodeError
           THEN /\ exc' = [exc EXCEPT ![t] =
                       OtherError("UnicodeEncodeError", "surrogates not allowed")]
                /\ ret' = [ret EXCEPT ![t] = [kind |-> "raise", exc |-> exc'[t]]]
                /\ UNCHANGED oauth2_string
           ELSE /\ oauth2_string' = [oauth2_string EXCEPT ![t] = call]
                /\ ret' = [ret EXCEPT ![t] = [kind |-> "return", val |-> call.value]]
                /\ UNCHANGED exc
    /\ pc' = [pc EXCEPT ![t] = "idle"]
    /\ UNCHANGED <<cfg, token_cache, token_lock, op, connection, server,
                   access_token, result, reply, trace, log,
                   since_clear, minted, expired>>

NextSasl == \E t \in Threads : GenerateOAuth2String(t)

SpecSasl == InitSasl /\ [][NextSasl]_vars

----------------------------------------------------------------------------
(* Vocabulary of the properties. *)
KeyOf(t) == cfg[t].client_id \o ":" \o cfg[t].tenant_id

MissingField(t) ==
    cfg[t].client_id = "" \/ cfg[t].client_secret = "" \/ cfg[t].tenant_id = ""

Done(t, name) == pc[t] = "idle" /\ op[t] = name

Acquisitions(t) == Count(trace[t], "acquire")

LockedRegion ==
    {"gat_locked", "gat_hit", "gat_net", "gat_stored", "gat_raise", "clr_locked"}

Returned(v) == [kind |-> "return", val |-> v]

Raised(e) == [kind |-> "raise", exc |-> e]

----------------------------------------------------------------------------
(* C1: a get_access_token() that finds its key in the cache returns the     *)
(* cached token with no network acquisition and leaves the cache alone; one *)
(* that misses issues exactly one acquisition and, when the response holds  *)
(* a token, stores and returns that token; and an entry, once stored, stays *)
(* as it is until a clear_token_cache() runs.                               *)
C1_CachedTokenReused ==
    [][\A t \in Threads :
        /\ (pc[t] = "gat_locked" /\ pc'[t] # "gat_locked"
                /\ KeyOf(t) \in DOMAIN token_cache)
              => /\ pc'[t] = "gat_hit"
                 /\ access_token'[t] = token_cache[KeyOf(t)]
                 /\ Count(trace'[t], "acquire") = 0
                 /\ token_cache' = token_cache
        /\ (pc[t] = "gat_locked" /\ pc'[t] # "gat_locked"
                /\ KeyOf(t) \notin DOMAIN token_cache)
              => /\ pc'[t] = "gat_net"
                 /\ Count(trace'[t], "acquire") = 1
        /\ (pc[t] = "gat_net" /\ pc'[t] = "gat_stored")
              => /\ KeyOf(t) \in DOMAIN token_cache'
                 /\ token_cache'[KeyOf(t)] = access_token'[t]
                 /\ Count(trace'[t], "acquire") = 1
        /\ (pc[t] \in {"gat_hit", "gat_stored"} /\ pc'[t] = "idle")
              => ret'[t] = Returned(token_cache[KeyOf(t)])
        /\ \A k \in DOMAIN token_cache :
              \/ k \in DOMAIN token_cache' /\ token_cache'[k] = token_cache[k]
              \/ \E u \in Threads : pc[u] = "clr_locked" /\ pc'[u] = "idle"
      ]_vars

(* C1's case: one backend acquired and stored a token, and another backend  *)
(* with the same credentials then got that token from the cache.            *)
C1_Witness ==
    \E t, u \in Threads :
        /\ t # u /\ cfg[t] = cfg[u]
        /\ Done(t, "get_access_token") /\ Done(u, "get_access_token")
        /\ trace[u] = <<"acquire", "store">>
        /\ trace[t] = <<"cache_hit">>
        /\ ret[t].kind = "return" /\ ret[t] = ret[u]

(* C2: at most one network acquisition is in flight in the process, and a   *)
(* thread that reads or writes the cache holds the class-level lock.        *)
C2_OneAcquisitionInFlight ==
    /\ Cardinality({t \in Threads : pc[t] = "gat_net"}) <= 1
    /\ \A t \in Threads : pc[t] \in LockedRegion => token_lock = t
    /\ token_lock # "None" => pc[token_lock] \in LockedRegion

(* C2's case: an acquisition is in flight while a backend of another        *)
(* credential identity waits for the lock.                                  *)
C2_Witness ==
    \E t, u \in Threads :
        /\ pc[t] = "gat_net" /\ pc[u] = "gat_wait"
        /\ KeyOf(t) # KeyOf(u)

(* C3: open() on a transport that has a connection returns False at once:   *)
(* no connection attempt, no token request, no AUTH, no log record, the     *)
(* connection and the token cache as they were; and the open() that         *)
(* authenticates returns True and keeps its connection.                     *)
C3_OpenIdempotent ==
    [][\A t \in Threads :
        /\ (pc[t] = "open_entry" /\ pc'[t] # "open_entry" /\ connection[t] # "None")
              => /\ pc'[t] = "idle"
                 /\ ret'[t] = Returned("False")
                 /\ connection'[t] = connection[t]
                 /\ server'[t] = server[t]
                 /\ trace'[t] = <<>> /\ log'[t] = <<>>
                 /\ token_cache' = token_cache
        /\ (pc[t] = "open_auth" /\ server'[t] = "authenticated")
              => /\ pc'[t] = "idle"
                 /\ ret'[t] = Returned("True")
                 /\ connection'[t] # "None"
      ]_vars

(* C3's case: a second open() on the open transport has returned False.     *)
C3_Witness ==
    \E t \in Threads :
        /\ Done(t, "open") /\ ret[t] = Returned("False")
        /\ trace[t] = <<>>
        /\ connection[t] # "None" /\ server[t] = "authenticated"

(* C4: between calls the connection is non-null exactly when the session is *)
(* authenticated; an open() that ended in an error has no connection, has   *)
(* attempted quit exactly when a connection had been made, and reports the  *)
(* error it caught, whatever quit did.                                      *)
C4_FailedOpenReleases ==
    \A t \in Threads :
        /\ pc[t] = "idle"
              => (connection[t] # "None" <=> server[t] = "authenticated")
        /\ (Done(t, "open") /\ exc[t] # NoExc)
              => /\ connection[t] = "None"
                 /\ server[t] = "closed"
                 /\ Count(trace[t], "quit") + Count(trace[t], "quit_raised")
                        = (IF Count(trace[t], "ehlo") > 0 THEN 1 ELSE 0)
                 /\ ret[t] \in {Raised(exc[t]), Returned("False")}

(* C4's case: open() failed after connecting, quit raised too, and the      *)
(* caller got the first error.                                              *)
C4_Witness ==
    \E t \in Threads :
        /\ Done(t, "open") /\ exc[t] # NoExc
        /\ Count(trace[t], "quit_raised") = 1
        /\ connection[t] = "None"
        /\ ret[t] = Raised(exc[t])

(* C5: open() ends authenticated and returns True exactly when the reply to *)
(* AUTH XOAUTH2 has code 235; after any other reply the error of open() is  *)
(* an SMTPAuthenticationError carrying the reply's code and text, and the   *)
(* connection is closed.                                                    *)
C5_AuthDecidedByCode ==
    \A t \in Threads :
        (Done(t, "open") /\ reply[t] # NoReply)
          => /\ (reply[t].code = 235)
                  <=> (ret[t] = Returned("True") /\ server[t] = "authenticated")
             /\ (reply[t].code # 235)
                  => /\ exc[t] = [type |-> "SMTPAuthenticationError",
                                  smtp_code |-> reply[t].code,
                                  smtp_error |-> "OAuth2 authentication failed: "
                                                 \o reply[t].response]
                     /\ connection[t] = "None"

(* C6: a backend with a static username and password authenticates by      *)
(* password login: its open() neither requests an OAuth2 token nor sends    *)
(* AUTH XOAUTH2.                                                            *)
C6_PasswordLoginWhenConfigured ==
    \A t \in Threads :
        (cfg[t].username # "" /\ cfg[t].password # "")
          => /\ Count(trace[t], "get_access_token") = 0
             /\ Count(trace[t], "auth") = 0

(* C7: get_access_token() on a backend with an empty client_id,             *)
(* client_secret or tenant_id raises the credentials-not-configured error   *)
(* in its first step, without taking the lock, issuing an acquisition or    *)
(* touching the cache.                                                      *)
C7_UnconfiguredRefused ==
    [][\A t \in Threads :
        (MissingField(t) /\ op[t] = "get_access_token")
          => /\ pc[t] \in {"idle", "gat_entry"}
             /\ (pc[t] = "gat_entry" /\ pc'[t] # "gat_entry")
                  => /\ pc'[t] = "idle"
                     /\ ret'[t] = Raised(CredentialsNotConfigured)
                     /\ trace'[t] = <<>>
                     /\ token_cache' = token_cache
                     /\ token_lock' = token_lock
      ]_vars

(* C7's case: the refusal happened while the cache held an entry under the  *)
(* refused backend's own key.                                               *)
C7_Witness ==
    \E t \in Threads :
        /\ MissingField(t)
        /\ Done(t, "get_access_token")
        /\ ret[t] = Raised(CredentialsNotConfigured)
        /\ KeyOf(t) \in DOMAIN token_cache

(* C8: a get_access_token() about to raise after an acquisition has stored  *)
(* nothing, its key is not in the cache, and its error is an                *)
(* SMTPAuthenticationError with code 0 whose text holds the provider's      *)
(* error and error_description when the response gave them.                 *)
C8_FailedAcquisitionNotCached ==
    \A t \in Threads :
        pc[t] = "gat_raise"
          => /\ KeyOf(t) \notin DOMAIN token_cache
             /\ Count(trace[t], "store") = 0
             /\ token_lock = t
             /\ exc[t].type = "SMTPAuthenticationError"
             /\ exc[t].smtp_code = 0
             /\ "error" \in DOMAIN result[t]
                  => exc[t].smtp_error =
                        "OAuth2 token acquisition failed: " \o result[t].error
                        \o ". Check your Azure app registration and credentials. Details: "
                        \o result[t].error_description

(* C8's case: the provider answered invalid_client / bad secret.            *)
C8_Witness ==
    \E t \in Threads :
        /\ pc[t] = "gat_raise"
        /\ result[t] = [error |-> "invalid_client", error_description |-> "bad secret"]

(* C9: clear_token_cache() leaves the cache empty, and a lookup in an empty *)
(* cache always issues an acquisition.                                      *)
C9_ClearForcesAcquisition ==
    [][\A t \in Threads :
        /\ (pc[t] = "clr_locked" /\ pc'[t] # "clr_locked")
              => DOMAIN token_cache' = {}
        /\ (pc[t] = "gat_locked" /\ pc'[t] # "gat_locked" /\ DOMAIN token_cache = {})
              => /\ pc'[t] = "gat_net"
                 /\ Count(trace'[t], "acquire") = 1
      ]_vars

(* C9's case: a token was stored, the other backend cleared the cache, and  *)
(* its next get_access_token() is acquiring.                                *)
C9_Witness ==
    \E t, u \in Threads :
        /\ t # u /\ KeyOf(t) = KeyOf(u)
        /\ Done(t, "get_access_token") /\ trace[t] = <<"acquire", "store">>
        /\ token_cache = EmptyCache
        /\ pc[u] = "gat_net"

(* C10 as stated: with fail_silently set, a 535 reply to AUTH makes open()  *)
(* return False with one error record logged.                               *)
C10_OneLogEntry ==
    \A t \in Threads :
        (Done(t, "open") /\ reply[t].code = 535 /\ cfg[t].fail_silently)
          => /\ ret[t] = Returned("False")
             /\ LogCount(log[t], "error") = 1

(* C10, amended: after a 535 reply to AUTH, open() with fail_silently set   *)
(* returns False and raises nothing, with two error records logged (the     *)
(* AUTH check's and the handler's; the handler's alone when the reply text  *)
(* is not valid UTF-8); without fail_silently the error caught propagates.  *)
C10_SilentFailureLogged ==
    \A t \in Threads :
        (Done(t, "open") /\ reply[t].code = 535)
          => /\ LogCount(log[t], "error")
                    = (IF reply[t].response = "\\xff\\xfe" THEN 1 ELSE 2)
             /\ exc[t] # NoExc
             /\ cfg[t].fail_silently => ret[t] = Returned("False")
             /\ ~cfg[t].fail_silently => ret[t] = Raised(exc[t])

(* C10's case: a silenced 535 failure.                                      *)
C10_Witness ==
    \E t \in Threads :
        /\ Done(t, "open") /\ reply[t].code = 535 /\ cfg[t].fail_silently
        /\ ret[t] = Returned("False")
        /\ LogCount(log[t], "error") = 2


(* C11: two backends with the same client_id and tenant_id that look the    *)
(* token up with no clear_token_cache() in between and no failed            *)
(* acquisition make at most one network acquisition between them, exactly   *)
(* one when the cache was empty, and both are handed the same token.        *)
C11_SingleAcquisitionPerIdentity ==
    \A t, u \in Threads :
        ( /\ t # u
          /\ t \in since_clear /\ u \in since_clear
          /\ cfg[t].client_id = cfg[u].client_id
          /\ cfg[t].tenant_id = cfg[u].tenant_id
          /\ exc[t] = NoExc /\ exc[u] = NoExc )
        => /\ Count(trace[t], "acquire") + Count(trace[u], "acquire") <= 1
           /\ (Count(trace[t], "cache_hit") = 1 /\ Count(trace[u], "cache_hit") = 1)
                 \/ Count(trace[t], "acquire") + Count(trace[u], "acquire") = 1
           /\ (access_token[t] # "" /\ access_token[u] # "")
                 => access_token[t] = access_token[u]
           /\ (pc[t] = "idle" /\ pc[u] = "idle" /\ op[t] = op[u])
                 => ret[t].kind = "return" /\ ret[t] = ret[u]

(* C11's case: the cache was empty, one backend missed and acquired, and    *)
(* the other, with the same two ids, is served that token from the cache.   *)
C11_Witness ==
    \E t, u \in Threads :
        /\ t # u /\ {t, u} \subseteq since_clear
        /\ cfg[t].client_id = cfg[u].client_id
        /\ cfg[t].tenant_id = cfg[u].tenant_id
        /\ trace[t] = <<"acquire", "store">> /\ ret[t].kind = "return"
        /\ pc[u] = "gat_hit" /\ access_token[u] = ret[t].val



(* C12: a failed authentication in open() leaves the token cache as it is:  *)
(* the rejected token stays cached, the call ends without another attempt,  *)
(* and an open() that finds the entry presents that cached token with no    *)
(* acquisition.                                                             *)
C12_RejectedTokenStaysCached ==
    [][\A t \in Threads :
        /\ (pc[t] = "open_sasl" /\ pc'[t] # "open_sasl")
              => /\ token_cache' = token_cache
                 /\ pc'[t] \in {"open_auth", "open_except"}
        /\ (pc[t] = "open_auth" /\ pc'[t] # "open_auth")
              => /\ token_cache' = token_cache
                 /\ oauth2_string'[t].access_token = CodePoints(access_token[t])
                 /\ reply'[t].code # 235 => pc'[t] = "open_except"
        /\ (pc[t] = "open_except" /\ pc'[t] # "open_except")
              => /\ token_cache' = token_cache
                 /\ pc'[t] = "idle"
                 /\ trace'[t] \in {trace[t], Append(trace[t], "quit"),
                                   Append(trace[t], "quit_raised")}
        /\ (op[t] = "open" /\ pc[t] = "gat_locked" /\ pc'[t] # "gat_locked"
                /\ KeyOf(t) \in DOMAIN token_cache)
              => /\ pc'[t] = "gat_hit"
                 /\ access_token'[t] = token_cache[KeyOf(t)]
                 /\ Count(trace'[t], "acquire") = 0
                 /\ token_cache' = token_cache
      ]_vars

(* C12's case: the server rejected a token, and a later open() with the     *)
(* same credentials presented that token again from the cache, where it     *)
(* still is, and was rejected too.                                          *)
C12_Witness ==
    \E t, u \in Threads :
        /\ t # u /\ KeyOf(t) = KeyOf(u)
        /\ Done(u, "open") /\ Count(trace[u], "acquire") = 1
        /\ reply[u].code = 535
        /\ Done(t, "open") /\ Count(trace[t], "cache_hit") = 1
        /\ Count(trace[t], "acquire") = 0
        /\ reply[t].code = 535
        /\ oauth2_string[t] = oauth2_string[u]
        /\ KeyOf(t) \in DOMAIN token_cache
        /\ CodePoints(token_cache[KeyOf(t)]) = oauth2_string[t].access_token



(* C13: open() never retries.  One call makes at most one connection        *)
(* attempt, one STARTTLS, one get_access_token() call with at most one      *)
(* network acquisition, and one AUTH XOAUTH2 command; once a step has       *)
(* failed the call only unwinds, and it reports that failure once.          *)
C13_NoRetry ==
    \A t \in Threads :
        op[t] = "open"
        => /\ Count(trace[t], "connect") <= 1
           /\ Count(trace[t], "starttls") <= 1
           /\ Count(trace[t], "get_access_token") <= 1
           /\ Count(trace[t], "acquire") <= 1
           /\ Count(trace[t], "auth") <= 1
           /\ exc[t] # NoExc => pc[t] \in {"gat_raise", "open_except", "idle"}
           /\ (exc[t] # NoExc /\ pc[t] = "idle")
                 => ret[t] \in {[kind |-> "raise", exc |-> exc[t]],
                                [kind |-> "return", val |-> "False"]}

(* C13's case: an open() whose one acquisition failed has ended, with one   *)
(* connection attempt and no AUTH command.                                  *)
C13_Witness ==
    \E t \in Threads :
        /\ Done(t, "open") /\ ret[t].kind = "raise"
        /\ Count(trace[t], "connect") = 1
        /\ Count(trace[t], "get_access_token") = 1
        /\ Count(trace[t], "acquire") = 1
        /\ Count(trace[t], "store") = 0
        /\ Count(trace[t], "auth") = 0



(* C14: a cached token is reused only until it expires: a lookup that       *)
(* finds an entry whose token has expired acquires a fresh token instead    *)
(* of returning the expired one.                                            *)
C14_ExpiredTokenRefreshed ==
    [][\A t \in Threads :
        (pc[t] = "gat_locked" /\ pc'[t] # "gat_locked" /\ KeyOf(t) \in expired)
           => /\ pc'[t] = "gat_net"
              /\ Count(trace'[t], "acquire") = 1
      ]_vars



(* The value of a base64 character, and RFC 4648 decoding. *)
B64Value(c) == CHOOSE n \in 0..63 : B64Alphabet[n + 1] = c

RECURSIVE B64Decode(_)
B64Decode(chars) ==
    IF Len(chars) < 4 THEN <<>>
    ELSE LET a == B64Value(chars[1])
             b == B64Value(chars[2])
             rest == B64Decode(SubSeq(chars, 5, Len(chars)))
         IN  IF chars[3] = "=" THEN <<a * 4 + (b \div 16)>>
             ELSE IF chars[4] = "="
             THEN <<a * 4 + (b \div 16),
                    (b % 16) * 16 + (B64Value(chars[3]) \div 4)>>
             ELSE <<a * 4 + (b \div 16),
                    (b % 16) * 16 + (B64Value(chars[3]) \div 4),
                    (B64Value(chars[3]) % 4) * 64 + B64Value(chars[4])>>
                  \o rest

(* base64 of 'user=admin@example.com\x01auth=Bearer T123\x01\x01'. *)
ExampleOAuth2String ==
    <<
      "d", "X", "N", "l", "c", "j", "1", "h", "Z", "G", "1", "p",
      "b", "k", "B", "l", "e", "G", "F", "t", "c", "G", "x", "l",
      "L", "m", "N", "v", "b", "Q", "F", "h", "d", "X", "R", "o",
      "P", "U", "J", "l", "Y", "X", "J", "l", "c", "i", "B", "U",
      "M", "T", "I", "z", "A", "Q", "E", "="
    >>

(* base64 text in canonical form: whole groups of four characters, '=' only
   as padding at the very end, and no stray bits before the padding. *)
B64Canonical(chars) ==
    /\ Len(chars) % 4 = 0
    /\ \A i \in 1..Len(chars) : chars[i] = "=" => i >= Len(chars) - 1
    /\ Len(chars) > 0 =>
          LET n == Len(chars)
          IN  /\ chars[n - 1] = "=" => chars[n] = "="
              /\ chars[n - 1] = "=" => B64Value(chars[n - 2]) % 16 = 0
              /\ (chars[n] = "=" /\ chars[n - 1] # "=")
                    => B64Value(chars[n - 1]) % 4 = 0

(* What bytes that are not UTF-8 decode to: no code point. *)
Utf8Invalid == <<-1>>

(* The number of bytes of the UTF-8 sequence that lead byte b opens, 0 when
   b opens none (RFC 3629). *)
Utf8Width(b) ==
    IF b < 128 THEN 1
    ELSE IF b >= 192 /\ b < 224 THEN 2
    ELSE IF b >= 224 /\ b < 240 THEN 3
    ELSE IF b >= 240 /\ b < 248 THEN 4
    ELSE 0

(* Strict UTF-8 decoding (RFC 3629): bytes to code points, refusing stray
   and missing continuation bytes, overlong forms, surrogates and values
   past U+10FFFF. *)
RECURSIVE Utf8Decode(_)
Utf8Decode(bytes) ==
    IF bytes = <<>> THEN <<>>
    ELSE LET b == bytes[1]
             n == Utf8Width(b)
         IN  IF \/ n = 0
                \/ Len(bytes) < n
                \/ \E i \in 2..n : bytes[i] < 128 \/ bytes[i] > 191
             THEN Utf8Invalid
             ELSE LET cp ==
                        CASE n = 1 -> b
                          [] n = 2 -> (b - 192) * 64 + (bytes[2] - 128)
                          [] n = 3 -> (b - 224) * 4096 + (bytes[2] - 128) * 64
                                      + (bytes[3] - 128)
                          [] n = 4 -> (b - 240) * 262144
                                      + (bytes[2] - 128) * 4096
                                      + (bytes[3] - 128) * 64
                                      + (bytes[4] - 128)
                      least ==
                        CASE n = 1 -> 0 [] n = 2 -> 128
                          [] n = 3 -> 2048 [] n = 4 -> 65536
                  IN  IF \/ cp < least
                         \/ (cp >= 55296 /\ cp <= 57343)
                         \/ cp > 1114111
                      THEN Utf8Invalid
                      ELSE <<cp>> \o Utf8Decode(SubSeq(bytes, n + 1, Len(bytes)))

(* The string of the claim: 'user=', user, 0x01, 'auth=Bearer ', token,     *)
(* 0x01, 0x01, as code points.                                              *)
ClaimedString(user, token) ==
    <<117, 115, 101, 114, 61>> \o user \o <<1>>
    \o <<97, 117, 116, 104, 61, 66, 101, 97, 114, 101, 114, 32>>
    \o token \o <<1, 1>>

(* C15 as claimed: for every user and token the call returns base64 text    *)
(* that decodes to exactly the string 'user=', user, 0x01, 'auth=Bearer ',  *)
(* token, 0x01, 0x01.                                                       *)
C15_ReturnsForEveryInput ==
    \A t \in Threads :
        Done(t, "generate_oauth2_string")
        => /\ ret[t].kind = "return"
           /\ Utf8Decode(B64Decode(ret[t].val)) =
                 ClaimedString(oauth2_string[t].user,
                               oauth2_string[t].access_token)

(* Neither string holds a lone surrogate. *)
NoLoneSurrogate(call) ==
    /\ \A i \in 1..Len(call.user) :
          call.user[i] < 55296 \/ call.user[i] > 57343
    /\ \A i \in 1..Len(call.access_token) :
          call.access_token[i] < 55296 \/ call.access_token[i] > 57343

(* C15, amended: for a user and token without lone surrogates the call      *)
(* returns canonical base64 text whose bytes are UTF-8 for exactly the      *)
(* string 'user=', user, 0x01, 'auth=Bearer ', token, 0x01, 0x01, and the   *)
(* documented example gives the documented text; when either argument       *)
(* holds a lone surrogate the call raises UnicodeEncodeError and returns    *)
(* nothing.  Two calls with equal arguments end alike, whatever the token   *)
(* cache holds, and the step of the call leaves the configuration, the      *)
(* transport, the token cache and the lock as they were.                    *)
C15_OAuth2StringFormat ==
    /\ [](\A t \in Threads :
            Done(t, "generate_oauth2_string")
            => LET call == oauth2_string[t]
               IN  /\ NoLoneSurrogate(call)
                         => /\ ret[t].kind = "return"
                            /\ B64Canonical(ret[t].val)
                            /\ Utf8Decode(B64Decode(ret[t].val)) =
                                  ClaimedString(call.user, call.access_token)
                   /\ ~NoLoneSurrogate(call)
                         => /\ ret[t].kind = "raise"
                            /\ ret[t].exc.type = "UnicodeEncodeError"
                   /\ (call.user = ExampleUser
                         /\ call.access_token = ExampleToken)
                         => ret[t] = Returned(ExampleOAuth2String)
                   /\ \A u \in Threads :
                         ( /\ Done(u, "generate_oauth2_string")
                           /\ oauth2_string[u].user = call.user
                           /\ oauth2_string[u].access_token = call.access_token )
                         => ret[u] = ret[t])
    /\ [][\A t \in Threads :
            (pc[t] = "sasl_call" /\ pc'[t] = "idle")
               => UNCHANGED <<cfg, token_cache, token_lock, connection,
                              server, access_token>>]_vars

(* C15's cases: with a token in the cache, the call has returned the        *)
(* documented text for the documented example, and a call whose token       *)
(* holds a lone surrogate has raised.                                       *)
C15_Witness ==
    /\ DOMAIN token_cache # {}
    /\ pc["t2"] = "idle" /\ ret["t2"] = Returned(ExampleOAuth2String)
    /\ pc["t1"] = "idle" /\ oauth2_string["t1"].user = <<233, 65536>>
    /\ oauth2_string["t1"].access_token = <<57343>>
    /\ ret["t1"].kind = "raise"

(* The steps open() must have completed before it asks for a token. *)
Handshake(t) ==
    IF cfg[t].use_tls /\ ~cfg[t].use_ssl
    THEN <<"connect", "ehlo", "starttls", "ehlo">>
    ELSE <<"connect", "ehlo">>

(* The complete step sequences of one open(), by how the token came. *)
FullOrders(t) ==
    {Handshake(t) \o <<"get_access_token">> \o how \o <<"ehlo", "auth">> :
        how \in {<<>>, <<"cache_hit">>, <<"acquire">>, <<"acquire", "store">>}}

(* The steps of the call, without the handler's closing quit(). *)
StepsBeforeQuit(t) ==
    IF trace[t] # <<>> /\ trace[t][Len(trace[t])] \in {"quit", "quit_raised"}
    THEN SubSeq(trace[t], 1, Len(trace[t]) - 1)
    ELSE trace[t]

IsPrefix(s, full) == Len(s) <= Len(full) /\ s = SubSeq(full, 1, Len(s))

(* C16: the steps of one open() come in the fixed order connect, EHLO,      *)
(* STARTTLS and EHLO (only with use_tls and without use_ssl), token         *)
(* acquisition, EHLO, AUTH XOAUTH2.  No token is asked for and no AUTH is   *)
(* sent before the connection, and STARTTLS where it applies, succeeded;    *)
(* when either fails the call makes neither.                                *)
C16_StepOrder ==
    \A t \in Threads :
        op[t] = "open"
        => /\ \E full \in FullOrders(t) : IsPrefix(StepsBeforeQuit(t), full)
           /\ \A i \in 1..Len(trace[t]) :
                 trace[t][i] \in {"get_access_token", "cache_hit", "acquire",
                                  "store", "auth"}
                 => /\ i > Len(Handshake(t))
                    /\ SubSeq(trace[t], 1, Len(Handshake(t))) = Handshake(t)
           /\ Count(trace[t], "starttls") > 0
                 => cfg[t].use_tls /\ ~cfg[t].use_ssl
           /\ pc[t] \in {"open_token", "gat_entry", "gat_wait", "gat_locked",
                         "gat_net", "gat_hit", "gat_stored", "open_sasl",
                         "open_auth"}
                 => /\ connection[t] # "None"
                    /\ IsPrefix(Handshake(t), trace[t])

(* C16's cases: a STARTTLS open() ran every step to a successful AUTH, and  *)
(* another open() whose STARTTLS failed closed with no token and no AUTH.   *)
C16_Witness ==
    \E t, u \in Threads :
        /\ Done(t, "open") /\ ret[t] = Returned("True")
        /\ trace[t] = <<"connect", "ehlo", "starttls", "ehlo",
                        "get_access_token", "acquire", "store", "ehlo", "auth">>
        /\ Done(u, "open") /\ ret[u].kind = "raise"
        /\ trace[u] = <<"connect", "ehlo", "starttls", "quit">>



(* C17 as claimed: get_access_token() and clear_token_cache() release the   *)
(* lock on every way out, by return and by exception: the lock is free      *)
(* whenever no call is in progress, and, the identity provider answering    *)
(* every request, every call that was started completes.                    *)
C17_EveryCallCompletes ==
    /\ []((\A t \in Threads : pc[t] = "idle") => token_lock = "None")
    /\ [][\A t \in Threads :
            (pc[t] \in LockedRegion /\ pc'[t] \notin LockedRegion)
               => token_lock = t /\ token_lock' = "None"]_vars
    /\ \A t \in Threads : (pc[t] # "idle") ~> (pc[t] = "idle")

(* A call blocked at `with self._token_lock` (lines 124, 309). *)
WaitingForLock == {"gat_wait", "clr_wait"}

(* C17, amended: the lock is released on every way out, by return and by    *)
(* exception, and is free whenever no call is in progress; the identity     *)
(* provider answering every request, a call that holds the lock completes,  *)
(* a free lock that calls wait for is taken, and every call that was        *)
(* started completes unless it is left waiting while other calls hold the   *)
(* lock.                                                                    *)
C17_LockReleasedNoDeadlock ==
    /\ []((\A t \in Threads : pc[t] = "idle") => token_lock = "None")
    /\ [][\A t \in Threads :
            (pc[t] \in LockedRegion /\ pc'[t] \notin LockedRegion)
               => token_lock = t /\ token_lock' = "None"]_vars
    /\ \A t \in Threads : (token_lock = t) ~> (pc[t] = "idle")
    /\ (token_lock = "None" /\ \E t \in Threads : pc[t] \in WaitingForLock)
          ~> (token_lock # "None")
    /\ \A t \in Threads :
          (pc[t] # "idle")
             ~> \/ pc[t] = "idle"
                \/ pc[t] \in WaitingForLock /\ token_lock \notin {"None", t}

(* C17's case: a call waits for the lock while the call that holds it is    *)
(* leaving get_access_token() by an exception.                              *)
C17_Witness ==
    \E t, u \in Threads :
        /\ pc[t] \in {"gat_wait", "clr_wait"}
        /\ pc[u] = "gat_raise" /\ token_lock = u



(* C18: the cache key is injective in (client_id, tenant_id): a backend     *)
(* that finds an entry under its key finds a token that was acquired for    *)
(* its own client_id and tenant_id, whatever characters the ids hold.       *)
C18_KeyInjective ==
    \A t \in Threads :
        pc[t] = "gat_hit"
        => /\ minted[KeyOf(t)].client_id = cfg[t].client_id
           /\ minted[KeyOf(t)].tenant_id = cfg[t].tenant_id

(* C19 as claimed: a backend that is served the entry of its own            *)
(* (client_id, tenant_id) has the client_secret the token was acquired      *)
(* with.                                                                    *)
C19_OwnSecret ==
    \A t \in Threads :
        ( /\ pc[t] = "gat_hit"
          /\ minted[KeyOf(t)].client_id = cfg[t].client_id
          /\ minted[KeyOf(t)].tenant_id = cfg[t].tenant_id )
        => minted[KeyOf(t)].client_secret = cfg[t].client_secret

(* C19, amended: the token a backend is handed is the one cached under its  *)
(* key client_id ':' tenant_id, acquired by a backend of the process with   *)
(* that same key and a non-empty secret; a backend that stores a token      *)
(* acquired it with its own triple.  The client_secret is no part of the    *)
(* key, so a hit needs no acquisition with the caller's own secret.         *)
C19_TokenSharedByKey ==
    \A t \in Threads :
        pc[t] \in {"gat_hit", "gat_stored"}
        => /\ KeyOf(t) \in DOMAIN token_cache
           /\ access_token[t] = token_cache[KeyOf(t)]
           /\ KeyOf(t) \in DOMAIN minted
           /\ minted[KeyOf(t)].client_id \o ":" \o minted[KeyOf(t)].tenant_id
                 = KeyOf(t)
           /\ minted[KeyOf(t)].client_secret # ""
           /\ cfg[t].client_secret # ""
           /\ pc[t] = "gat_stored"
                 => minted[KeyOf(t)] =
                       [client_id |-> cfg[t].client_id,
                        client_secret |-> cfg[t].client_secret,
                        tenant_id |-> cfg[t].tenant_id]

(* C19's case: a backend is served, with no acquisition of its own, the     *)
(* token another backend acquired with a different client_secret for the    *)
(* same client_id and tenant_id.                                            *)
C19_Witness ==
    \E t \in Threads :
        /\ pc[t] = "gat_hit" /\ trace[t] = <<"cache_hit">>
        /\ minted[KeyOf(t)].client_id = cfg[t].client_id
        /\ minted[KeyOf(t)].tenant_id = cfg[t].tenant_id
        /\ minted[KeyOf(t)].client_secret # cfg[t].client_secret
        /\ access_token[t] = token_cache[KeyOf(t)]


============================================================================
